---- MODULE Spec2Model ----
(***************************************************************************)
(* Lifecycle of one hapi server instance (lib/xxx.js): _start, _init,      *)
(* _stop, the connection registry kept by _onConnection, the drain timer   *)
(* and the callbacks of the node listener.                                 *)
(*                                                                         *)
(* The node http listener and the event loop are the environment:          *)
(*  - listen() binds either synchronously (address given as an IP, the     *)
(*    'listening' event is queued with process.nextTick) or after an       *)
(*    asynchronous lookup (host name), or it fails to bind;                *)
(*  - close(cb) on a listener that has no handle throws 'Not running';     *)
(*    otherwise it registers cb once on 'close', drops the handle and the  *)
(*    'close' event is queued with process.nextTick as soon as the handle  *)
(*    is gone and no accepted connection is left;                          *)
(*  - callbacks queued with process.nextTick run in FIFO order before any  *)
(*    I/O or timer callback.                                               *)
(***************************************************************************)
EXTENDS Integers, Sequences, FiniteSets, TLC

\* ---------------------------------------------------------------- bounds
MaxStarts == 2
MaxStops == 2
MaxConns == 2
MaxKey == 2
MaxReqs == 1
MaxArgs == 3
MaxOrigins == 2
MaxOriginLen == 2

StartIds == 1..MaxStarts
StopIds == 1..MaxStops
ConnIds == 1..MaxConns
\* key 0 is 'undefined:undefined', the key of every connection of a UNIX
\* domain socket or named pipe listener; 1..MaxKey are 'address:port' keys
Keys == 0..MaxKey
ReqIds == 1..MaxReqs

VARIABLES
    unixDomainSocket,   \* this._unixDomainSocket (fixed at construction)
    started,            \* this._started
    heavy,              \* load monitor running (this._heavy.start/stop)
    lst,                \* listener: "idle" | "binding" | "listening" | "failed"
    nListen,            \* number of listener.listen() calls made
    listeningSeen,      \* the listener emitted 'listening' since the last listen()
    onListeningH,       \* start calls whose onListening is registered (once)
    connHandlers,       \* handlers registered on the listener's 'connection' event
    onConnection,       \* this._onConnection (0 = null), named by the _init that made it
    connections,        \* this._connections: key -> connection (0 = no entry)
    cstate,             \* connection: "new" | "open" | "destroyed" | "closed"
    ckey,               \* connection's remoteAddress + ':' + remotePort
    recorded,           \* times the connection was recorded (= close handlers installed)
    closeCbs,           \* stop calls whose callback waits once on the listener's 'close'
    timer,              \* drain timer of each stop call
    ticks,              \* process.nextTick queue
    nStart, nStop,      \* calls made so far
    startMode,          \* branch taken by each _start call
    stopMode,           \* branch taken by each _stop call
    startCb,            \* invocations of each _start callback
    stopCb,             \* invocations of each _stop callback
    uncaught,           \* 'error' events emitted with no handler, and exceptions thrown
    requests,           \* what the handler returned by _dispatch has done with each request
    drain,              \* options.timeout of each _stop call and the delay given to setTimeout
    ctor,               \* a call of the constructor: its arguments and what it produced
    realm,              \* a call of the Realm constructor: its options and what it produced
    inject              \* a call of inject: the caller's options, what was forwarded, the callback

vars == <<unixDomainSocket, started, heavy, lst, nListen, listeningSeen,
          onListeningH, connHandlers, onConnection, connections, cstate, ckey,
          recorded, closeCbs, timer, ticks, nStart, nStop, startMode, stopMode,
          startCb, stopCb, uncaught, requests, drain, ctor, realm, inject>>

\* what _start's already-started branch and _stop's not-started branch must leave alone
serverState == <<unixDomainSocket, started, heavy, lst, nListen, listeningSeen,
                 onListeningH, connHandlers, onConnection, connections, cstate,
                 ckey, recorded, closeCbs, timer, uncaught>>

\* ---------------------------------------------------------------- helpers
EmptyRegistry == [k \in Keys |-> 0]

Live(c) == cstate[c] \in {"open", "destroyed"}
LiveIn(cs, c) == cs[c] \in {"open", "destroyed"}

StartTick(i) == [t |-> "start", id |-> i]
StopTick(s) == [t |-> "stop", id |-> s]
CloseTick == [t |-> "close", id |-> 0]
ListeningTick == [t |-> "listening", id |-> 0]

\* number of queued ticks equal to x
RECURSIVE CountTicks(_, _)
CountTicks(q, x) ==
    IF q = <<>> THEN 0
    ELSE (IF Head(q) = x THEN 1 ELSE 0) + CountTicks(Tail(q), x)

\* I/O and timer callbacks run only when the nextTick queue is drained
IOReady == ticks = <<>>

\* no constructor call is being followed
NoCtor ==
    [phase |-> "none", args |-> <<>>, res |-> <<>>, address |-> [address |-> <<>>, port |-> 0]]

\* no Realm constructor call is being followed
NoRealm == [phase |-> "none", opts |-> <<>>, res |-> <<>>]

\* a request that has not arrived yet
NoRequest ==
    [conn |-> 0, overloaded |-> FALSE, stopped |-> FALSE,
     checks |-> 0, logs |-> 0, replies |-> 0, executes |-> 0, state |-> "none"]

\* the options object given to inject: a request description, with or without a
\* credentials field
InjectOptions ==
    {[hasCredentials |-> FALSE, credentials |-> "undefined", url |-> "/"]}
        \cup [hasCredentials : {TRUE}, credentials : {"null", "object"}, url : {"/"}]

\* inject has not been called
NoInject ==
    [phase |-> "none",
     options |-> [hasCredentials |-> FALSE, credentials |-> "undefined", url |-> "/"],
     optionsAfter |-> [hasCredentials |-> FALSE, credentials |-> "undefined", url |-> "/"],
     settings |-> [hasCredentials |-> FALSE, credentials |-> "undefined", url |-> "/"],
     dispatchCredentials |-> "undefined",
     request |-> NoRequest,
     callbacks |-> 0,
     result |-> ""]

\* a _stop call that has not been made
NoDrain == [supplied |-> FALSE, timeout |-> 0, delay |-> 0]

Init ==
    /\ unixDomainSocket \in BOOLEAN
    /\ started = FALSE
    /\ heavy = FALSE
    /\ lst = "idle"
    /\ nListen = 0
    /\ listeningSeen = FALSE
    /\ onListeningH = {}
    /\ connHandlers = {}
    /\ onConnection = 0
    /\ connections = EmptyRegistry
    /\ cstate = [c \in ConnIds |-> "new"]
    /\ ckey = [c \in ConnIds |-> 0]
    /\ recorded = [c \in ConnIds |-> 0]
    /\ closeCbs = {}
    /\ timer = [s \in StopIds |-> "none"]
    /\ ticks = <<>>
    /\ nStart = 0
    /\ nStop = 0
    /\ startMode = [i \in StartIds |-> "none"]
    /\ stopMode = [s \in StopIds |-> "none"]
    /\ startCb = [i \in StartIds |-> 0]
    /\ stopCb = [s \in StopIds |-> 0]
    /\ uncaught = 0
    /\ requests = [r \in ReqIds |-> NoRequest]
    /\ drain = [s \in StopIds |-> NoDrain]
    /\ ctor = NoCtor
    /\ realm = NoRealm
    /\ inject = NoInject

\* ---------------------------------------------------------------- _init
InitConnectionsKeep(reg) == reg

\* this._connections = {}
InitConnections(reg) == EmptyRegistry

\* this._onConnection = function ...; this.listener.on('connection', this._onConnection)
RegisterOnConnection(handlers, i) == handlers \cup {i}

\* body of _onConnection: self._connections[key] = connection
OnConnection(reg, k, c) == [reg EXCEPT ![k] = c]

OnConnectionCloseKeep(reg, k) == reg

\* the connection's once('close') handler: delete self._connections[key]
OnConnectionClose(reg, k) == [reg EXCEPT ![k] = 0]

\* onListening: every registered once('listening') handler calls its start callback
OnListening ==
    /\ startCb' = [i \in StartIds |-> IF i \in onListeningH THEN startCb[i] + 1 ELSE startCb[i]]
    /\ onListeningH' = {}
    /\ listeningSeen' = TRUE

\* listener.listen(...): outcome is "bound" (synchronous bind, 'listening' queued),
\* "lookup" (bind after an asynchronous lookup) or "failed" (bind error, 'error'
\* emitted with no handler registered)
Listen(outcome) ==
    /\ nListen' = nListen + 1
    /\ listeningSeen' = FALSE
    /\ IF lst = "listening"
       THEN /\ outcome = "bound"
            /\ lst' = lst
            /\ ticks' = Append(ticks, ListeningTick)
            /\ uncaught' = uncaught
       ELSE IF lst = "binding"
       THEN /\ outcome = "lookup"
            /\ UNCHANGED <<lst, ticks, uncaught>>
       ELSE CASE outcome = "bound" ->
                   /\ lst' = "listening"
                   /\ ticks' = Append(ticks, ListeningTick)
                   /\ uncaught' = uncaught
              [] outcome = "lookup" ->
                   /\ lst' = "binding"
                   /\ UNCHANGED <<ticks, uncaught>>
              [] outcome = "failed" ->
                   /\ lst' = "failed"
                   /\ uncaught' = uncaught + 1
                   /\ ticks' = ticks

\* ---------------------------------------------------------------- _start
\* if (this._started) return Hoek.nextTick(callback)()
StartAlreadyReinit(i) ==
    /\ started
    /\ connections' = EmptyRegistry
    /\ onConnection' = i
    /\ connHandlers' = connHandlers \cup {i}
    /\ ticks' = Append(ticks, StartTick(i))
    /\ startMode' = [startMode EXCEPT ![i] = "noop"]
    /\ UNCHANGED <<unixDomainSocket, started, heavy, lst, nListen, listeningSeen,
                   onListeningH, cstate, ckey, recorded, closeCbs, timer, uncaught>>

StartAlready(i) ==
    /\ started
    /\ ticks' = Append(ticks, StartTick(i))
    /\ startMode' = [startMode EXCEPT ![i] = "noop"]
    /\ UNCHANGED serverState

\* this._started = true; this._init(callback); this.listener.listen(...)
StartFresh(i, outcome) ==
    /\ ~started
    /\ started' = TRUE
    /\ heavy' = TRUE
    /\ connections' = InitConnections(connections)
    /\ onListeningH' = onListeningH \cup {i}
    /\ onConnection' = i
    /\ connHandlers' = RegisterOnConnection(connHandlers, i)
    /\ Listen(outcome)
    /\ startMode' = [startMode EXCEPT ![i] = "fresh"]
    /\ UNCHANGED <<unixDomainSocket, cstate, ckey, recorded, closeCbs, timer>>

\* a caller invokes _start(callback); calls are numbered in call order
StartCall ==
    /\ nStart < MaxStarts
    /\ nStart' = nStart + 1
    /\ UNCHANGED <<nStop, stopMode, startCb, stopCb>>

StartWhenStarted == StartCall /\ StartAlready(nStart + 1)

StartWhenStopped ==
    \E outcome \in {"bound", "lookup", "failed"} :
        StartCall /\ StartFresh(nStart + 1, outcome)

\* ---------------------------------------------------------------- _stop
ClearTimeoutNoop(t) == t

\* clearTimeout(timeoutId)
ClearTimeout(t) == IF t = "armed" THEN "cleared" ELSE t

DestroyFirstOnly(reg, cs) ==
    [c \in ConnIds |->
        IF /\ cs[c] = "open"
           /\ \E k \in Keys : reg[k] = c /\ \A j \in Keys : j < k => reg[j] = 0
        THEN "destroyed" ELSE cs[c]]

\* the drain timer's callback: destroy() on every connection of the registry
DestroyAll(reg, cs) ==
    [c \in ConnIds |->
        IF cs[c] = "open" /\ \E k \in Keys : reg[k] = c THEN "destroyed" ELSE cs[c]]

ListenerCloseDestroys(cs) == [c \in ConnIds |-> IF cs[c] = "open" THEN "destroyed" ELSE cs[c]]

\* listener.close(): the listener stops accepting; open connections are kept
ListenerClose(cs) == cs

\* options.timeout of a _stop call: left out, or a number of ms
StopTimeouts == {0, 1000}
StopOptions == {NoDrain} \cup {[supplied |-> TRUE, timeout |-> n, delay |-> 0] : n \in StopTimeouts}

\* options.timeout = options.timeout || 5000
DrainTimeout(opt) == IF opt.supplied /\ opt.timeout # 0 THEN opt.timeout ELSE 5000

\* if (!this._started) return Hoek.nextTick(callback)()
StopNotStartedArmsTimer(s) ==
    /\ ~started
    /\ timer' = [timer EXCEPT ![s] = "armed"]
    /\ ticks' = Append(ticks, StopTick(s))
    /\ stopMode' = [stopMode EXCEPT ![s] = "noop"]
    /\ UNCHANGED <<unixDomainSocket, started, heavy, lst, nListen, listeningSeen,
                   onListeningH, connHandlers, onConnection, connections, cstate,
                   ckey, recorded, closeCbs, uncaught>>

StopNotStarted(s) ==
    /\ ~started
    /\ ticks' = Append(ticks, StopTick(s))
    /\ stopMode' = [stopMode EXCEPT ![s] = "noop"]
    /\ UNCHANGED serverState

StopStartedNoWait(s) ==
    /\ started
    /\ started' = FALSE
    /\ heavy' = FALSE
    /\ timer' = [timer EXCEPT ![s] = "armed"]
    /\ IF lst = "listening"
       THEN /\ lst' = "idle"
            /\ ticks' = Append(ticks, StopTick(s))
            /\ stopMode' = [stopMode EXCEPT ![s] = "close"]
            /\ UNCHANGED <<closeCbs, uncaught>>
       ELSE /\ uncaught' = uncaught + 1
            /\ stopMode' = [stopMode EXCEPT ![s] = "threw"]
            /\ UNCHANGED <<closeCbs, lst, ticks>>
    /\ cstate' = ListenerClose(cstate)
    /\ UNCHANGED <<unixDomainSocket, nListen, listeningSeen, onListeningH, connHandlers,
                   onConnection, connections, ckey, recorded>>

\* this._started = false; this._heavy.stop(); setTimeout(...); this.listener.close(...)
StopStarted(s) ==
    /\ started
    /\ started' = FALSE
    /\ heavy' = FALSE
    /\ timer' = [timer EXCEPT ![s] = "armed"]
    /\ IF lst = "listening"
       THEN /\ closeCbs' = closeCbs \cup {s}
            /\ lst' = "idle"
            /\ ticks' = IF \E c \in ConnIds : Live(c) THEN ticks ELSE Append(ticks, CloseTick)
            /\ stopMode' = [stopMode EXCEPT ![s] = "close"]
            /\ uncaught' = uncaught
       ELSE /\ uncaught' = uncaught + 1              \* close() throws 'Not running'
            /\ stopMode' = [stopMode EXCEPT ![s] = "threw"]
            /\ UNCHANGED <<closeCbs, lst, ticks>>
    /\ cstate' = ListenerClose(cstate)
    /\ UNCHANGED <<unixDomainSocket, nListen, listeningSeen, onListeningH, connHandlers,
                   onConnection, connections, ckey, recorded>>

\* a caller invokes _stop(options, callback); calls are numbered in call order
StopCall ==
    /\ nStop < MaxStops
    /\ nStop' = nStop + 1
    /\ UNCHANGED <<nStart, startMode, startCb, stopCb>>

StopWhenStopped ==
    \E opt \in StopOptions :
        /\ StopCall
        /\ StopNotStarted(nStop + 1)
        /\ drain' = [drain EXCEPT ![nStop + 1] = opt]

\* the delay given to setTimeout is options.timeout after its default was applied
StopWhenStarted ==
    \E opt \in StopOptions :
        /\ StopCall
        /\ StopStarted(nStop + 1)
        /\ drain' = [drain EXCEPT ![nStop + 1] = [opt EXCEPT !.delay = DrainTimeout(opt)]]

\* the callback given to listener.close(): removeListener, clearTimeout, callback()
OnListenerClose ==
    /\ connHandlers' = IF closeCbs = {} THEN connHandlers ELSE connHandlers \ {onConnection}
    /\ timer' = [s \in StopIds |-> IF s \in closeCbs THEN ClearTimeout(timer[s]) ELSE timer[s]]
    /\ stopCb' = [s \in StopIds |-> IF s \in closeCbs THEN stopCb[s] + 1 ELSE stopCb[s]]
    /\ closeCbs' = {}

\* the drain timer of stop call s fires
TimerFire(s) ==
    /\ IOReady
    /\ timer[s] = "armed"
    /\ timer' = [timer EXCEPT ![s] = "fired"]
    /\ cstate' = DestroyAll(connections, cstate)
    /\ UNCHANGED <<unixDomainSocket, started, heavy, lst, nListen, listeningSeen,
                   onListeningH, connHandlers, onConnection, connections, ckey,
                   recorded, closeCbs, ticks, nStart, nStop, startMode, stopMode,
                   startCb, stopCb, uncaught>>

\* ---------------------------------------------------------------- listener events
\* the lookup finished and the socket is bound: 'listening'
Listening ==
    /\ IOReady
    /\ lst = "binding"
    /\ lst' = "listening"
    /\ OnListening
    /\ UNCHANGED <<unixDomainSocket, started, heavy, nListen, connHandlers, onConnection,
                   connections, cstate, ckey, recorded, closeCbs, timer, ticks, nStart,
                   nStop, startMode, stopMode, stopCb, uncaught>>

\* the bind failed: 'error' is emitted and nothing listens for it
BindError ==
    /\ IOReady
    /\ lst = "binding"
    /\ lst' = "failed"
    /\ uncaught' = uncaught + 1
    /\ UNCHANGED <<unixDomainSocket, started, heavy, nListen, listeningSeen, onListeningH,
                   connHandlers, onConnection, connections, cstate, ckey, recorded,
                   closeCbs, timer, ticks, nStart, nStop, startMode, stopMode, startCb,
                   stopCb>>

\* the listener accepts connection c with key k and emits 'connection'
Accept(c, k) ==
    /\ IOReady
    /\ lst = "listening"
    /\ cstate[c] = "new"
    /\ \A d \in ConnIds : d < c => cstate[d] # "new"
    /\ IF unixDomainSocket THEN k = 0
       ELSE k # 0 /\ \A d \in ConnIds : Live(d) => ckey[d] # k
    /\ cstate' = [cstate EXCEPT ![c] = "open"]
    /\ ckey' = [ckey EXCEPT ![c] = k]
    /\ recorded' = [recorded EXCEPT ![c] = Cardinality(connHandlers)]
    /\ connections' = IF connHandlers = {} THEN connections ELSE OnConnection(connections, k, c)
    /\ UNCHANGED <<unixDomainSocket, started, heavy, lst, nListen, listeningSeen,
                   onListeningH, connHandlers, onConnection, closeCbs, timer, ticks,
                   nStart, nStop, startMode, stopMode, startCb, stopCb, uncaught>>

\* connection c closes (the client ended it, or it was destroyed): its 'close' handlers
\* run, and the listener queues its own 'close' when it is drained
ConnClose(c) ==
    /\ IOReady
    /\ Live(c)
    /\ cstate' = [cstate EXCEPT ![c] = "closed"]
    /\ connections' = IF recorded[c] > 0 THEN OnConnectionClose(connections, ckey[c])
                      ELSE connections
    /\ ticks' = IF /\ lst # "listening"
                   /\ closeCbs # {}
                   /\ \A d \in ConnIds : d # c => ~Live(d)
                THEN Append(ticks, CloseTick) ELSE ticks
    /\ UNCHANGED <<unixDomainSocket, started, heavy, lst, nListen, listeningSeen,
                   onListeningH, connHandlers, onConnection, ckey, recorded, closeCbs,
                   timer, nStart, nStop, startMode, stopMode, startCb, stopCb, uncaught>>

\* ---------------------------------------------------------------- nextTick queue
TickStartCb ==
    /\ ticks # <<>> /\ Head(ticks).t = "start"
    /\ startCb' = [startCb EXCEPT ![Head(ticks).id] = @ + 1]
    /\ ticks' = Tail(ticks)
    /\ UNCHANGED <<serverState, nStart, nStop, startMode, stopMode, stopCb>>

TickStopCb ==
    /\ ticks # <<>> /\ Head(ticks).t = "stop"
    /\ stopCb' = [stopCb EXCEPT ![Head(ticks).id] = @ + 1]
    /\ ticks' = Tail(ticks)
    /\ UNCHANGED <<serverState, nStart, nStop, startMode, stopMode, startCb>>

TickListening ==
    /\ ticks # <<>> /\ Head(ticks).t = "listening"
    /\ OnListening
    /\ ticks' = Tail(ticks)
    /\ UNCHANGED <<unixDomainSocket, started, heavy, lst, nListen, connHandlers,
                   onConnection, connections, cstate, ckey, recorded, closeCbs, timer,
                   nStart, nStop, startMode, stopMode, stopCb, uncaught>>

TickClose ==
    /\ ticks # <<>> /\ Head(ticks).t = "close"
    /\ OnListenerClose
    /\ ticks' = Tail(ticks)
    /\ UNCHANGED <<unixDomainSocket, started, heavy, lst, nListen, listeningSeen,
                   onListeningH, onConnection, connections, cstate, ckey, recorded,
                   nStart, nStop, startMode, stopMode, startCb, uncaught>>

Tick == TickStartCb \/ TickStopCb \/ TickListening \/ TickClose

\* ---------------------------------------------------------------- _dispatch
\* the server is STOPPED: _stop has cleared _started and closed the listener, and no
\* _start has set _started again
Stopped == ~started /\ \E s \in StopIds : stopMode[s] = "close"

DispatchRequestNoElse(c, over, stp) ==
    [conn |-> c, overloaded |-> over, stopped |-> stp,
     checks |-> 1,
     logs |-> IF over THEN 1 ELSE 0,
     replies |-> IF over THEN 1 ELSE 0,
     executes |-> 1,
     state |-> "executing"]

\* the handler returned by _dispatch, for a request of connection c: one
\* self._heavy.check(); overloaded: self.log and request._reply(Boom.serverTimeout);
\* otherwise request._execute()
DispatchRequest(c, over, stp) ==
    [conn |-> c, overloaded |-> over, stopped |-> stp,
     checks |-> 1,
     logs |-> IF over THEN 1 ELSE 0,
     replies |-> IF over THEN 1 ELSE 0,
     executes |-> IF over THEN 0 ELSE 1,
     state |-> IF over THEN "replied" ELSE "executing"]

\* the listener hands request r, read from open connection c, to the handler
Dispatch(r, c, over) ==
    /\ IOReady
    /\ cstate[c] = "open"
    /\ requests[r] = NoRequest
    /\ \A q \in ReqIds : q < r => requests[q] # NoRequest
    /\ requests' = [requests EXCEPT ![r] = DispatchRequest(c, over, Stopped)]
    /\ UNCHANGED <<serverState, ticks, nStart, nStop, startMode, stopMode, startCb, stopCb,
                   drain, ctor, realm, inject>>

\* request._execute() runs to its end: the response of request r has been sent on
\* its connection, which is still open
Complete(r) ==
    /\ IOReady
    /\ requests[r].state = "executing"
    /\ cstate[requests[r].conn] = "open"
    /\ requests' = [requests EXCEPT ![r].state = "completed"]
    /\ UNCHANGED <<serverState, ticks, nStart, nStop, startMode, stopMode, startCb, stopCb,
                   drain, ctor, realm, inject>>

\* ---------------------------------------------------------------- inject
\* if (settings.credentials)
TruthyCredentials(options) == options.credentials = "object"

\* delete settings.credentials
DeleteCredentials(settings) ==
    [settings EXCEPT !.hasCredentials = FALSE, !.credentials = "undefined"]

InjectPrepareNoCopy(options) ==
    IF TruthyCredentials(options)
    THEN [options |-> DeleteCredentials(options), settings |-> DeleteCredentials(options)]
    ELSE [options |-> options, settings |-> options]

\* settings = options, or a shallow copy of options without its credentials: the
\* caller's object after the statement, and the object forwarded to Shot.inject
InjectPrepare(options) ==
    IF TruthyCredentials(options)
    THEN [options |-> options, settings |-> DeleteCredentials(options)]
    ELSE [options |-> options, settings |-> options]

\* inject(options, callback): the handler made by _dispatch({ credentials:
\* options.credentials }) is given the request Shot makes from settings
InjectCall(options, over) ==
    /\ inject.phase = "none"
    /\ inject' = [inject EXCEPT
                      !.phase = "dispatched",
                      !.options = options,
                      !.optionsAfter = InjectPrepare(options).options,
                      !.settings = InjectPrepare(options).settings,
                      !.dispatchCredentials = options.credentials,
                      !.request = DispatchRequest(0, over, Stopped)]
    /\ UNCHANGED <<serverState, ticks, nStart, nStop, startMode, stopMode, startCb, stopCb,
                   requests, drain, ctor, realm>>

\* the response has ended: Shot calls back once, and inject passes the response,
\* with res.result taken from res.raw.res._hapi or from the payload, to callback
InjectRespond(hapi) ==
    /\ IOReady
    /\ inject.phase = "dispatched"
    /\ inject' = [inject EXCEPT
                      !.phase = "done",
                      !.request.state = IF @ = "executing" THEN "completed" ELSE @,
                      !.callbacks = @ + 1,
                      !.result = IF hapi THEN "_hapi.result" ELSE "payload"]
    /\ UNCHANGED <<serverState, ticks, nStart, nStop, startMode, stopMode, startCb, stopCb,
                   requests, drain, ctor, realm>>

Next ==
    \/ StartWhenStarted /\ UNCHANGED <<requests, drain, ctor, realm, inject>>
    \/ StartWhenStopped /\ UNCHANGED <<requests, drain, ctor, realm, inject>>
    \/ StopWhenStopped /\ UNCHANGED <<requests, ctor, realm, inject>>
    \/ StopWhenStarted /\ UNCHANGED <<requests, ctor, realm, inject>>
    \/ \E s \in StopIds : TimerFire(s) /\ UNCHANGED <<requests, drain, ctor, realm, inject>>
    \/ Listening /\ UNCHANGED <<requests, drain, ctor, realm, inject>>
    \/ BindError /\ UNCHANGED <<requests, drain, ctor, realm, inject>>
    \/ \E c \in ConnIds, k \in Keys : Accept(c, k) /\ UNCHANGED <<requests, drain, ctor, realm, inject>>
    \/ \E c \in ConnIds : ConnClose(c) /\ UNCHANGED <<requests, drain, ctor, realm, inject>>
    \/ TickStartCb /\ UNCHANGED <<requests, drain, ctor, realm, inject>>
    \/ TickStopCb /\ UNCHANGED <<requests, drain, ctor, realm, inject>>
    \/ TickListening /\ UNCHANGED <<requests, drain, ctor, realm, inject>>
    \/ TickClose /\ UNCHANGED <<requests, drain, ctor, realm, inject>>
    \/ \E r \in ReqIds, c \in ConnIds, over \in BOOLEAN : Dispatch(r, c, over)
    \/ \E r \in ReqIds : Complete(r)

Spec == Init /\ [][Next]_vars

\* the event loop runs queued ticks, timers fire, and a destroyed connection closes;
\* a client may keep an open connection forever
FairSpec ==
    /\ Spec
    /\ WF_vars(Tick /\ UNCHANGED <<requests, drain, ctor, realm, inject>>)
    /\ \A s \in StopIds : WF_vars(TimerFire(s) /\ UNCHANGED <<requests, drain, ctor, realm, inject>>)
    /\ \A c \in ConnIds : WF_vars(cstate[c] = "destroyed" /\ ConnClose(c) /\ UNCHANGED <<requests, drain, ctor, realm, inject>>)

\* a server whose owner starts and stops it while a request is injected; no
\* network connection is made
InjectNext ==
    \/ StartWhenStarted /\ UNCHANGED <<requests, drain, ctor, realm, inject>>
    \/ StartWhenStopped /\ UNCHANGED <<requests, drain, ctor, realm, inject>>
    \/ StopWhenStopped /\ UNCHANGED <<requests, ctor, realm, inject>>
    \/ StopWhenStarted /\ UNCHANGED <<requests, ctor, realm, inject>>
    \/ \E s \in StopIds : TimerFire(s) /\ UNCHANGED <<requests, drain, ctor, realm, inject>>
    \/ Listening /\ UNCHANGED <<requests, drain, ctor, realm, inject>>
    \/ BindError /\ UNCHANGED <<requests, drain, ctor, realm, inject>>
    \/ TickStartCb /\ UNCHANGED <<requests, drain, ctor, realm, inject>>
    \/ TickStopCb /\ UNCHANGED <<requests, drain, ctor, realm, inject>>
    \/ TickListening /\ UNCHANGED <<requests, drain, ctor, realm, inject>>
    \/ TickClose /\ UNCHANGED <<requests, drain, ctor, realm, inject>>
    \/ \E options \in InjectOptions, over \in BOOLEAN : InjectCall(options, over)
    \/ \E hapi \in BOOLEAN : InjectRespond(hapi)

InjectSpec == Init /\ [][InjectNext]_vars

TypeOK ==
    /\ started \in BOOLEAN /\ heavy \in BOOLEAN
    /\ lst \in {"idle", "binding", "listening", "failed"}
    /\ connections \in [Keys -> 0..MaxConns]
    /\ cstate \in [ConnIds -> {"new", "open", "destroyed", "closed"}]
    /\ timer \in [StopIds -> {"none", "armed", "fired", "cleared"}]

\* ---------------------------------------------------------------- constructor
\* JavaScript values given to the constructor.  A string is a sequence of
\* characters; "P" stands for the named-pipe prefix '\\.\pipe\' as one character.
Undefined == [t |-> "undefined", n |-> 0, s |-> <<>>, o |-> ""]
Num(n) == [t |-> "number", n |-> n, s |-> <<>>, o |-> ""]
Str(s) == [t |-> "string", n |-> 0, s |-> s, o |-> ""]
Obj(o) == [t |-> "object", n |-> 0, s |-> <<>>, o |-> o]
Bool == [t |-> "boolean", n |-> 0, s |-> <<>>, o |-> ""]
Pack == [t |-> "pack", n |-> 0, s |-> <<>>, o |-> ""]

Digits == {"0", "8"}
DigitValue(ch) == IF ch = "8" THEN 8 ELSE 0

Strings ==
    {<<>>, <<"0">>, <<"8", "0">>, <<"A">>, <<"A", "b">>, <<"a", "/">>, <<"/", "a">>,
     <<"P", "a">>, <<"P", "/">>, <<"a", "P">>}

\* null, {} and { tls: {...} }
Objects == {"null", "plain", "tls"}

Values ==
    {Undefined, Num(0), Num(80), Bool, Pack}
        \cup {Str(x) : x \in Strings} \cup {Obj(o) : o \in Objects}

ArgLists == UNION {[1..n -> Values] : n \in 0..MaxArgs}

\* args.length <= 4
MaxCtorArgs == 4

\* isFinite(+str): the empty string converts to 0, a string of digits to its
\* decimal value, anything else to NaN
IsNumericString(str) == \A j \in 1..Len(str) : str[j] \in Digits

RECURSIVE ToNumber(_)
ToNumber(str) ==
    IF str = <<>> THEN 0
    ELSE 10 * ToNumber(SubSeq(str, 1, Len(str) - 1)) + DigitValue(str[Len(str)])

\* !v
Falsy(v) ==
    \/ v.t = "undefined"
    \/ v.t = "number" /\ v.n = 0
    \/ v.t = "string" /\ v.s = <<>>
    \/ v.t = "object" /\ v.o = "null"

CoerceNone(v) == v

\* if (type === 'string' && isFinite(+argVal)) { type = 'number'; argVal = +argVal; }
Coerce(v) ==
    IF v.t = "string" /\ IsNumericString(v.s) THEN Num(ToNumber(v.s)) ELSE v

\* argMap[type]
ArgKey(v) ==
    CASE v.t = "string" -> "host"
      [] v.t = "number" -> "port"
      [] v.t = "object" -> "options"
      [] OTHER -> "none"

NoArgs == [host |-> Undefined, port |-> Undefined, options |-> Undefined,
           pack |-> Undefined, err |-> ""]

\* the loop of internals.XXX.port, from argument a on
RECURSIVE PortLoop(_, _, _)
PortLoop(args, a, result) ==
    IF a > Len(args) THEN result
    ELSE IF args[a].t = "undefined" THEN PortLoop(args, a + 1, result)
    ELSE IF args[a].t = "pack" THEN PortLoop(args, a + 1, [result EXCEPT !.pack = args[a]])
    ELSE LET argVal == Coerce(args[a])
             key == ArgKey(argVal)
         IN  IF key = "none" THEN [result EXCEPT !.err = "type"]
             ELSE IF ~Falsy(result[key]) THEN [result EXCEPT !.err = "duplicated"]
             ELSE PortLoop(args, a + 1, [result EXCEPT ![key] = argVal])

\* internals.XXX.port(args)
Port(args) ==
    IF Len(args) > MaxCtorArgs THEN [NoArgs EXCEPT !.err = "many"]
    ELSE PortLoop(args, 1, NoArgs)

\* str.indexOf('/') !== -1
HasSlash(str) == \E j \in 1..Len(str) : str[j] = "/"

\* str.indexOf('\\\\.\\pipe\\') === 0
HasPipePrefix(str) == Len(str) > 0 /\ str[1] = "P"

\* str.toLowerCase()
ToLowerCase(str) ==
    [j \in 1..Len(str) |-> CASE str[j] = "A" -> "a" [] OTHER -> str[j]]

\* Path.resolve(str): an absolute path is kept, a relative one is put under the
\* working directory
Cwd == <<"/", "w">>
PathResolve(str) == IF Len(str) > 0 /\ str[1] = "/" THEN str ELSE Cwd \o <<"/">> \o str

PortGivenTruthy(v) == ~Falsy(v)

\* args.port !== undefined
PortGiven(v) == v.t # "undefined"

ResolvePortTruthy(port, tls) == IF ~Falsy(port) THEN port.n ELSE IF tls THEN 443 ELSE 80

\* this._port = (args.port !== undefined ? args.port : (this.settings.tls ? 443 : 80))
ResolvePort(port, tls) == IF port.t # "undefined" THEN port.n ELSE IF tls THEN 443 ELSE 80

\* info.uri: protocol + sep + host, followed by ':' + port for a network listener;
\* NoUri when the property is not set
Uri(protocol, sep, host, port) == [protocol |-> protocol, sep |-> sep, host |-> host, port |-> port]
NoUri == Uri("", "", <<>>, 0)

\* Os.hostname() || 'localhost'
OsHostname == <<"h">>

FailedCtor(parsed, err) ==
    [status |-> "failed", err |-> err, parsed |-> parsed, unix |-> FALSE, pipe |-> FALSE,
     host |-> <<>>, port |-> 0, tls |-> FALSE,
     info |-> [host |-> <<>>, port |-> 0, protocol |-> "", uri |-> NoUri]]

\* the constructor, from internals.XXX.port(arguments) to this.info
Constructor(args) ==
    LET parsed == Port(args)
        hasHost == ~Falsy(parsed.host)
        unix == hasHost /\ HasSlash(parsed.host.s)
        pipe == hasHost /\ HasPipePrefix(parsed.host.s)
        tls == parsed.options.t = "object" /\ parsed.options.o = "tls"
        host == IF hasHost
                THEN (IF unix THEN PathResolve(parsed.host.s)
                      ELSE IF pipe THEN parsed.host.s
                      ELSE ToLowerCase(parsed.host.s))
                ELSE <<>>
        port == ResolvePort(parsed.port, tls)
        protocol == IF unix THEN "unix" ELSE IF pipe THEN "windows"
                    ELSE IF tls THEN "https" ELSE "http"
    IN  IF parsed.err # "" THEN FailedCtor(parsed, parsed.err)
        ELSE IF unix /\ PortGiven(parsed.port) THEN FailedCtor(parsed, "portWithSocket")
        ELSE IF pipe /\ PortGiven(parsed.port) THEN FailedCtor(parsed, "portWithPipe")
        ELSE [status |-> "ok", err |-> "", parsed |-> parsed, unix |-> unix, pipe |-> pipe,
              host |-> host, port |-> port, tls |-> tls,
              info |-> [host |-> IF host # <<>> THEN host ELSE <<"0", ".", "0", ".", "0", ".", "0">>,
                        port |-> IF unix \/ pipe THEN 0 ELSE port,
                        protocol |-> protocol,
                        uri |-> IF unix \/ pipe THEN Uri(protocol, ":", host, 0)
                                ELSE IF port # 0
                                THEN Uri(protocol, "://",
                                         IF host # <<>> THEN host ELSE OsHostname, port)
                                ELSE NoUri]]

\* new Server(...args): the state is the instance the constructor leaves
CtorInit ==
    /\ Init
    /\ ~unixDomainSocket

CtorStart ==
    /\ ctor.phase = "none"
    /\ \E args \in ArgLists : ctor' = [NoCtor EXCEPT !.phase = "args", !.args = args]
    /\ UNCHANGED <<serverState, ticks, nStart, nStop, startMode, stopMode, startCb, stopCb,
                   requests, drain, realm, inject>>

Construct ==
    /\ ctor.phase = "args"
    /\ ctor' = [ctor EXCEPT !.phase = "done", !.res = Constructor(ctor.args)]
    /\ unixDomainSocket' = (ctor'.res.status = "ok" /\ (ctor'.res.unix \/ ctor'.res.pipe))
    /\ UNCHANGED <<started, heavy, lst, nListen, listeningSeen, onListeningH, connHandlers,
                   onConnection, connections, cstate, ckey, recorded, closeCbs, timer,
                   uncaught, ticks, nStart, nStop, startMode, stopMode, startCb, stopCb,
                   requests, drain, realm, inject>>

\* a property read from a value that does not have it, where a number is expected
UndefinedNumber == -1

\* what listener.address() reports once bound: { address, port } for a network
\* listener, with the configured port or else a port the system picked; the
\* pipe name, a string without address and port, for a socket or pipe
AnyAddress == <<"0", ".", "0", ".", "0", ".", "0">>
ResolvedAddress == <<"1", ".", "1">>
EphemeralPorts == {49152, 49153}
ListenerAddresses(res) ==
    IF res.unix \/ res.pipe THEN {[address |-> <<>>, port |-> UndefinedNumber]}
    ELSE [address : {IF res.host # <<>> THEN ResolvedAddress ELSE AnyAddress},
          port : IF res.port # 0 THEN {res.port} ELSE EphemeralPorts]

OnListeningInfoKeep(res, address) == res.info

\* onListening: update info.host, info.port and info.uri with the active values
OnListeningInfo(res, address) ==
    IF ~res.unix \/ ~res.pipe
    THEN [res.info EXCEPT
              !.host = IF res.host # <<>> THEN res.host
                       ELSE IF address.address # <<>> THEN address.address
                       ELSE AnyAddress,
              !.port = address.port,
              !.uri = Uri(res.info.protocol, "://",
                          IF res.host # <<>> THEN res.host ELSE OsHostname, address.port)]
    ELSE res.info

\* _start on the constructed server: the listener binds, emits 'listening', and
\* onListening updates info before it calls the start callback
CtorListening ==
    /\ ctor.phase = "done"
    /\ ctor.res.status = "ok"
    /\ \E address \in ListenerAddresses(ctor.res) :
           ctor' = [ctor EXCEPT !.phase = "listening", !.address = address,
                                !.res.info = OnListeningInfo(ctor.res, address)]
    /\ UNCHANGED <<serverState, ticks, nStart, nStop, startMode, stopMode, startCb, stopCb,
                   requests, drain, realm, inject>>

CtorNext == CtorStart \/ Construct \/ CtorListening

CtorSpec == CtorInit /\ [][CtorNext]_vars

\* ---------------------------------------------------------------- Realm
\* a timeout setting: absent from the options, undefined, false, or a number of ms
Absent == [k |-> "absent", ms |-> 0]
Undef == [k |-> "undefined", ms |-> 0]
False == [k |-> "false", ms |-> 0]
Ms(n) == [k |-> "number", ms |-> n]

\* !t
FalsyTimeout(t) == t.k # "number" \/ t.ms = 0

DefaultTimeoutNoClient == [socket |-> Undef, client |-> False, server |-> False]

\* internals.defaults.server.timeout
DefaultTimeout == [socket |-> Undef, client |-> Ms(10 * 1000), server |-> False]

\* Hoek.applyToDefaultsWithShallow on the timeout object: a value the options
\* do not define keeps its default
MergeTimeout(opt) ==
    [f \in {"socket", "client", "server"} |->
        IF opt[f].k \in {"absent", "undefined"} THEN DefaultTimeout[f] ELSE opt[f]]

\* timeout.socket === undefined ? 2 * 60 * 1000 : timeout.socket
SocketTimeout(t) == IF t.socket.k = "undefined" THEN Ms(2 * 60 * 1000) ELSE t.socket

ShorterOrEqual(t, socketTimeout) ==
    FalsyTimeout(t) \/ FalsyTimeout(socketTimeout) \/ t.ms <= socketTimeout.ms

\* !timeout.x || !socketTimeout || timeout.x < socketTimeout
Shorter(t, socketTimeout) ==
    FalsyTimeout(t) \/ FalsyTimeout(socketTimeout) \/ t.ms < socketTimeout.ms

\* an origin is a string over these characters
OriginChars == {"a", ".", "*", "?"}
Origins == UNION {[1..n -> OriginChars] : n \in 1..MaxOriginLen}
OriginLists == UNION {[1..n -> Origins] : n \in 0..MaxOrigins}

\* origin.indexOf('*') !== -1
HasStar(origin) == \E j \in 1..Len(origin) : origin[j] = "*"

\* this.settings.cors.origin.indexOf('*') !== -1
IndexOfStar(list) == \E j \in 1..Len(list) : list[j] = <<"*">>

StarAloneAny(list) == TRUE

\* this.settings.cors.origin.length === 1
StarAlone(list) == Len(list) = 1

\* Hoek.escapeRegex(origin).replace(/\\\*/g, '.*').replace(/\\\?/g, '.'), one
\* piece of the pattern for each character of the origin
PatternPiece(ch) ==
    CASE ch = "*" -> ".*"
      [] ch = "?" -> "."
      [] ch = "." -> "\\."
      [] OTHER -> ch

\* new RegExp('^' + ... + '$')
OriginPattern(origin) ==
    <<"^">> \o [j \in 1..Len(origin) |-> PatternPiece(origin[j])] \o <<"$">>

\* list.join(' ')
RECURSIVE JoinSpace(_)
JoinSpace(list) ==
    IF list = <<>> THEN <<>>
    ELSE IF Len(list) = 1 THEN list[1]
    ELSE list[1] \o <<" ">> \o JoinSpace(Tail(list))

\* the loop over cors.origin, from entry c on
RECURSIVE OriginLoop(_, _, _)
OriginLoop(list, c, acc) ==
    IF c > Len(list) THEN acc
    ELSE IF HasStar(list[c])
    THEN OriginLoop(list, c + 1,
                    [acc EXCEPT !.wildcards = Append(@, OriginPattern(list[c]))])
    ELSE OriginLoop(list, c + 1, [acc EXCEPT !.qualified = Append(@, list[c])])

NoOrigin == [set |-> FALSE, err |-> "", any |-> FALSE, qualified |-> <<>>,
             qualifiedString |-> <<>>, wildcards |-> <<>>]
EmptyOrigin == [NoOrigin EXCEPT !.set = TRUE]

\* settings.cors._origin for a cors object with this origin list and matchOrigin
CorsOrigin(list, matchOrigin) ==
    IF Len(list) = 0 THEN NoOrigin
    ELSE IF IndexOfStar(list)
    THEN (IF StarAlone(list) THEN [EmptyOrigin EXCEPT !.any = TRUE]
          ELSE [EmptyOrigin EXCEPT !.err = "star"])
    ELSE LET o == OriginLoop(list, 1, EmptyOrigin)
         IN  IF ~(matchOrigin \/ Len(o.wildcards) = 0)
             THEN [o EXCEPT !.err = "matchOrigin"]
             ELSE [o EXCEPT !.qualifiedString = JoinSpace(o.qualified)]

\* the cors option: false, true, or an object with origin and matchOrigin
CorsFalse == [k |-> "false", origin |-> <<>>, matchOrigin |-> TRUE]
CorsTrue == [k |-> "true", origin |-> <<>>, matchOrigin |-> TRUE]
CorsObject(list, matchOrigin) == [k |-> "object", origin |-> list, matchOrigin |-> matchOrigin]

\* internals.defaults.cors.origin
DefaultOrigin == << <<"*">> >>

\* Hoek.applyToDefaults(internals.defaults.cors, settings.cors): null for false,
\* the defaults for true, the given origin and matchOrigin for an object
MergeCors(cors) ==
    CASE cors.k = "false" -> [on |-> FALSE, origin |-> <<>>, matchOrigin |-> TRUE]
      [] cors.k = "true" -> [on |-> TRUE, origin |-> DefaultOrigin, matchOrigin |-> TRUE]
      [] OTHER -> [on |-> TRUE, origin |-> cors.origin, matchOrigin |-> cors.matchOrigin]

\* ---------------------------------------------------------------- security headers
\* internals.defaults.security.hsts
DefaultHsts == 15768000

\* the hsts option: left out, false, true, a number, or { maxAge, includeSubdomains }
HstsAbsent ==
    [k |-> "absent", n |-> 0, hasMaxAge |-> FALSE, maxAge |-> 0, includeSubdomains |-> FALSE]
HstsFalse == [HstsAbsent EXCEPT !.k = "false"]
HstsTrue == [HstsAbsent EXCEPT !.k = "true"]
HstsNumber(n) == [HstsAbsent EXCEPT !.k = "number", !.n = n]
HstsObject(hasMaxAge, maxAge, includeSubdomains) ==
    [k |-> "object", n |-> 0, hasMaxAge |-> hasMaxAge, maxAge |-> maxAge,
     includeSubdomains |-> includeSubdomains]

\* a header string, or no header
NoHeader == [set |-> FALSE, value |-> <<>>]
Header(str) == [set |-> TRUE, value |-> str]

\* '' + n for a non-negative integer
DecimalDigits == <<"0", "1", "2", "3", "4", "5", "6", "7", "8", "9">>
RECURSIVE ToDecimal(_)
ToDecimal(n) ==
    IF n < 10 THEN <<DecimalDigits[n + 1]>>
    ELSE ToDecimal(n \div 10) \o <<DecimalDigits[(n % 10) + 1]>>

MaxAgePrefix == <<"m", "a", "x", "-", "a", "g", "e", "=">>
IncludeSubdomainsSuffix ==
    <<";", " ", "i", "n", "c", "l", "u", "d", "e", "S", "u", "b", "d", "o", "m", "a", "i", "n", "s">>

\* if (security.hsts)
HstsTruthy(hsts) == hsts.k = "true" \/ hsts.k = "object" \/ (hsts.k = "number" /\ hsts.n # 0)

\* hsts.maxAge || 15768000
MaxAgeOrDefault(hsts) == IF hsts.hasMaxAge /\ hsts.maxAge # 0 THEN hsts.maxAge ELSE DefaultHsts

\* settings.security._hsts
HstsHeader(hsts) ==
    IF ~HstsTruthy(hsts) THEN NoHeader
    ELSE IF hsts.k = "true" THEN Header(MaxAgePrefix \o ToDecimal(15768000))
    ELSE IF hsts.k = "number" THEN Header(MaxAgePrefix \o ToDecimal(hsts.n))
    ELSE Header(MaxAgePrefix \o ToDecimal(MaxAgeOrDefault(hsts))
                \o (IF hsts.includeSubdomains THEN IncludeSubdomainsSuffix ELSE <<>>))

\* the xframe option: left out, false, true, a string, or { rule, source }
XframeAbsent ==
    [k |-> "absent", s |-> <<>>, hasRule |-> FALSE, rule |-> <<>>, hasSource |-> FALSE,
     source |-> <<>>]
XframeFalse == [XframeAbsent EXCEPT !.k = "false"]
XframeTrue == [XframeAbsent EXCEPT !.k = "true"]
XframeString(str) == [XframeAbsent EXCEPT !.k = "string", !.s = str]
XframeObject(hasRule, rule, hasSource, source) ==
    [k |-> "object", s |-> <<>>, hasRule |-> hasRule, rule |-> rule, hasSource |-> hasSource,
     source |-> source]

LowerLetters == <<"a", "d", "e", "f", "g", "h", "i", "l", "m", "n", "o", "r", "s", "w", "x", "y">>
UpperLetters == <<"A", "D", "E", "F", "G", "H", "I", "L", "M", "N", "O", "R", "S", "W", "X", "Y">>

ToUpperCaseSame(str) == str

\* str.toUpperCase()
ToUpperCase(str) ==
    [j \in 1..Len(str) |->
        IF \E i \in 1..Len(LowerLetters) : LowerLetters[i] = str[j]
        THEN UpperLetters[CHOOSE i \in 1..Len(LowerLetters) : LowerLetters[i] = str[j]]
        ELSE str[j]]

Deny == <<"d", "e", "n", "y">>
SameOrigin == <<"s", "a", "m", "e", "o", "r", "i", "g", "i", "n">>
AllowFrom == <<"a", "l", "l", "o", "w", "-", "f", "r", "o", "m">>
DenyHeader == <<"D", "E", "N", "Y">>
SameOriginHeader == <<"S", "A", "M", "E", "O", "R", "I", "G", "I", "N">>
AllowFromPrefix == <<"A", "L", "L", "O", "W", "-", "F", "R", "O", "M", " ">>

\* if (security.xframe)
XframeTruthy(xframe) ==
    xframe.k = "true" \/ xframe.k = "object" \/ (xframe.k = "string" /\ xframe.s # <<>>)

\* settings.security._xframe; reading rule.toUpperCase of an object without a
\* rule throws
XframeHeader(xframe) ==
    IF ~XframeTruthy(xframe) THEN [err |-> "", header |-> NoHeader]
    ELSE IF xframe.k = "true" THEN [err |-> "", header |-> Header(DenyHeader)]
    ELSE IF xframe.k = "string" THEN [err |-> "", header |-> Header(ToUpperCase(xframe.s))]
    ELSE IF xframe.hasRule /\ xframe.rule = AllowFrom
    THEN (IF ~xframe.hasSource \/ xframe.source = <<>>
          THEN [err |-> "", header |-> Header(SameOriginHeader)]
          ELSE [err |-> "", header |-> Header(AllowFromPrefix \o xframe.source)])
    ELSE IF ~xframe.hasRule THEN [err |-> "rule", header |-> NoHeader]
    ELSE [err |-> "", header |-> Header(ToUpperCase(xframe.rule))]

\* the security option: false, true, or an object with hsts and xframe
SecurityFalse == [k |-> "false", hsts |-> HstsAbsent, xframe |-> XframeAbsent]
SecurityTrue == [k |-> "true", hsts |-> HstsAbsent, xframe |-> XframeAbsent]
SecurityObject(hsts, xframe) == [k |-> "object", hsts |-> hsts, xframe |-> xframe]

\* Hoek.applyToDefaults(internals.defaults.security, settings.security): null for
\* false, the defaults for true and for each setting an object leaves out
MergeSecurity(security) ==
    [on |-> security.k # "false",
     hsts |-> IF security.hsts.k = "absent" THEN HstsNumber(DefaultHsts) ELSE security.hsts,
     xframe |-> IF security.xframe.k = "absent" THEN XframeString(Deny) ELSE security.xframe]

FailedRealm(err) ==
    [status |-> "failed", err |-> err, timeout |-> DefaultTimeout, corsOn |-> FALSE,
     origin |-> NoOrigin, securityOn |-> FALSE, hsts |-> NoHeader, xframe |-> NoHeader]

\* the Realm constructor: defaults, timeout assertions, CORS origin, security headers
Realm(opts) ==
    LET timeout == MergeTimeout(opts.timeout)
        socketTimeout == SocketTimeout(timeout)
        cors == MergeCors(opts.cors)
        origin == IF cors.on THEN CorsOrigin(cors.origin, cors.matchOrigin) ELSE NoOrigin
        security == MergeSecurity(opts.security)
        hsts == IF security.on THEN HstsHeader(security.hsts) ELSE NoHeader
        xframe == IF security.on THEN XframeHeader(security.xframe)
                  ELSE [err |-> "", header |-> NoHeader]
    IN  IF ~Shorter(timeout.server, socketTimeout) THEN FailedRealm("server")
        ELSE IF ~Shorter(timeout.client, socketTimeout) THEN FailedRealm("client")
        ELSE IF origin.err # "" THEN FailedRealm(origin.err)
        ELSE IF xframe.err # "" THEN FailedRealm(xframe.err)
        ELSE [status |-> "ok", err |-> "", timeout |-> timeout, corsOn |-> cors.on,
              origin |-> origin, securityOn |-> security.on, hsts |-> hsts,
              xframe |-> xframe.header]

\* timeout options given to the constructor
SocketOpts == {Absent, False, Ms(0), Ms(1000), Ms(5000), Ms(120000), Ms(130000)}
ServerOpts == {Absent, False, Ms(0), Ms(2000), Ms(5000), Ms(120000), Ms(130000)}
ClientOpts == {Absent, False, Ms(0), Ms(4000), Ms(5000), Ms(120000)}
TimeoutOpts == [socket : SocketOpts, server : ServerOpts, client : ClientOpts]
NoTimeoutOpts == [socket |-> Absent, server |-> Absent, client |-> Absent]

\* security options given to the constructor
HstsOpts ==
    {HstsAbsent, HstsFalse, HstsTrue}
        \cup {HstsNumber(n) : n \in {0, 1, 300, 15768000}}
        \cup {HstsObject(FALSE, 0, i) : i \in BOOLEAN}
        \cup {HstsObject(TRUE, n, i) : n \in {0, 300}, i \in BOOLEAN}
XframeStrings == {Deny, DenyHeader, <<"D", "e", "n", "y">>, SameOrigin}
XframeRules ==
    XframeStrings \cup {AllowFrom, <<"A", "L", "L", "O", "W", "-", "F", "R", "O", "M">>}
XframeSources == {<<>>, <<"h", "/", "x">>}
XframeOpts ==
    {XframeAbsent, XframeFalse, XframeTrue}
        \cup {XframeString(str) : str \in XframeStrings}
        \cup {XframeObject(FALSE, <<>>, FALSE, <<>>)}
        \cup {XframeObject(TRUE, r, FALSE, <<>>) : r \in XframeRules}
        \cup {XframeObject(TRUE, r, TRUE, src) : r \in XframeRules, src \in XframeSources}
SecurityOpts ==
    {SecurityFalse, SecurityTrue}
        \cup {SecurityObject(h, x) : h \in HstsOpts, x \in XframeOpts}

\* the options given to the constructor: timeouts with cors false or true, a cors
\* object with an origin list, or security settings, every other option left out
TimeoutRealmOpts ==
    [timeout : TimeoutOpts, cors : {CorsFalse, CorsTrue}, security : {SecurityFalse}]
SecurityRealmOpts == [timeout : {NoTimeoutOpts}, cors : {CorsFalse}, security : SecurityOpts]
CorsRealmOpts(list, matchOrigin) ==
    [timeout |-> NoTimeoutOpts, cors |-> CorsObject(list, matchOrigin),
     security |-> SecurityFalse]

\* new Realm(options)
RealmInit ==
    /\ Init
    /\ ~unixDomainSocket

RealmStart ==
    /\ realm.phase = "none"
    /\ \/ \E opts \in TimeoutRealmOpts \cup SecurityRealmOpts :
              realm' = [phase |-> "opts", opts |-> opts, res |-> <<>>]
       \/ \E list \in OriginLists, matchOrigin \in BOOLEAN :
              realm' = [phase |-> "opts", opts |-> CorsRealmOpts(list, matchOrigin),
                        res |-> <<>>]
    /\ UNCHANGED <<serverState, ticks, nStart, nStop, startMode, stopMode, startCb, stopCb,
                   requests, drain, ctor, inject>>

RealmConstruct ==
    /\ realm.phase = "opts"
    /\ realm' = [realm EXCEPT !.phase = "done", !.res = Realm(realm.opts)]
    /\ UNCHANGED <<serverState, ticks, nStart, nStop, startMode, stopMode, startCb, stopCb,
                   requests, drain, ctor, inject>>

RealmNext == RealmStart \/ RealmConstruct

RealmSpec == RealmInit /\ [][RealmNext]_vars

\* ================================================================ claims

\* C1: every _stop call is eventually followed by the invocation of its callback,
\* queued ticks, drain timers and the close of destroyed connections being fair
\* and the listener having taken the close request (a listener that refuses
\* close() with 'Not running' is outside the claim's assumption on the listener).
C1_StopCallbackEventually ==
    \A s \in StopIds : (stopMode[s] \in {"noop", "close"}) ~> (stopCb[s] > 0)

\* C2: when a drain timer fires, every connection that is in the registry at that
\* moment has been destroyed once the timer step is over; none remains open.
C2_ForcedDrain ==
    [][\A s \in StopIds :
          (timer[s] = "armed" /\ timer'[s] = "fired") =>
              \A k \in Keys : connections[k] # 0 => cstate'[connections[k]] = "destroyed"]_vars

C2_Witness ==
    \E s \in StopIds :
        /\ timer[s] = "fired"
        /\ \E k \in Keys : connections[k] # 0 /\ cstate[connections[k]] = "destroyed"

\* C3: the callback of a _stop call made while _started was true is invoked only
\* when no accepted connection is live any more (open, or destroyed and not yet
\* closed) and the call's drain timer is no longer pending.
C3_CallbackAfterClose ==
    [][\A s \in StopIds :
          (stopMode[s] \in {"close", "threw"} /\ stopCb'[s] > stopCb[s]) =>
              /\ \A c \in ConnIds : ~LiveIn(cstate', c)
              /\ timer'[s] \in {"fired", "cleared"}]_vars

C3_Witness ==
    \E s \in StopIds :
        /\ stopMode[s] = "close" /\ stopCb[s] = 1 /\ timer[s] = "fired"
        /\ \E c \in ConnIds : cstate[c] = "closed"

\* C4: when the listener's close callback of a stop runs while its drain timer is
\* pending, the timer is cancelled; a cancelled timer never fires, and no drain
\* timer fires after the callback of its stop was invoked.
C4_TimerCancelled ==
    [][\A s \in StopIds :
          /\ (stopMode[s] = "close" /\ stopCb'[s] > stopCb[s] /\ timer[s] = "armed")
                 => timer'[s] = "cleared"
          /\ timer[s] = "cleared" => timer'[s] = "cleared"
          /\ (timer[s] = "armed" /\ timer'[s] = "fired") => stopCb[s] = 0]_vars

C4_Witness ==
    \E s \in StopIds :
        /\ timer[s] = "cleared" /\ stopCb[s] = 1
        /\ \E c \in ConnIds : cstate[c] = "open"

\* C5: whenever the callback of a _start call is invoked, the listener has
\* reported 'listening' since it was last asked to listen.
C5_StartCbAfterListening ==
    [][\A i \in StartIds : startCb'[i] > startCb[i] => listeningSeen']_vars

\* C6: a _start call made while _started is true changes no server state, does not
\* invoke its callback in the call itself and queues it once; the callback of such
\* a call is at every moment either queued once or invoked once.
C6_IdempotentStart ==
    /\ [][(nStart' = nStart + 1 /\ started) =>
              /\ UNCHANGED serverState
              /\ startCb' = startCb
              /\ ticks' = Append(ticks, StartTick(nStart'))]_vars
    /\ [](\A i \in StartIds : startMode[i] = "noop" =>
              startCb[i] + CountTicks(ticks, StartTick(i)) = 1)

C6_Witness ==
    \E i \in StartIds : startMode[i] = "noop" /\ startCb[i] = 1 /\ lst = "listening"

\* C7: a _stop call made while _started is false changes no server state (no drain
\* timer is created), does not invoke its callback in the call itself and queues
\* it once; the callback is at every moment either queued once or invoked once.
C7_IdempotentStop ==
    /\ [][(nStop' = nStop + 1 /\ ~started) =>
              /\ UNCHANGED serverState
              /\ stopCb' = stopCb
              /\ ticks' = Append(ticks, StopTick(nStop'))]_vars
    /\ [](\A s \in StopIds : stopMode[s] = "noop" =>
              /\ stopCb[s] + CountTicks(ticks, StopTick(s)) = 1
              /\ timer[s] = "none")

C7_Witness ==
    \E s \in StopIds : stopMode[s] = "noop" /\ stopCb[s] = 1 /\ nStart = 0

\* C8: at most one 'connection' handler is registered on the listener, it is the
\* one stored in _onConnection, and every accepted connection was recorded once.
C8_SingleHandler ==
    /\ Cardinality(connHandlers) <= 1
    /\ connHandlers # {} => connHandlers = {onConnection}
    /\ \A c \in ConnIds : cstate[c] # "new" => recorded[c] = 1

\* C9: a _start call made while _started is false leaves an empty registry.
C9_EmptyRegistryAtStart ==
    [][(nStart' = nStart + 1 /\ ~started) => connections' = EmptyRegistry]_vars

\* an open connection recorded in an earlier cycle, and the registry of the new
\* cycle empty (keys of a network listener are distinct, so only _init dropped it)
C9_Witness ==
    /\ ~unixDomainSocket
    /\ started
    /\ connections = EmptyRegistry
    /\ \E c \in ConnIds : cstate[c] = "open" /\ recorded[c] > 0

\* C10: after a bind failure the instance is not started (_started false) and a
\* later _start calls listen() again.
C10_BindFailure ==
    [][/\ lst' = "failed" => ~started'
       /\ (lst = "failed" /\ nStart' = nStart + 1) => nListen' = nListen + 1]_vars

\* C11: every dispatched request had the load check queried once; when it
\* reported overload, one rejection was produced, the load was logged once and
\* _execute was not invoked; otherwise _execute was invoked once and the gate
\* produced no response; and a dispatch step changes no lifecycle state.
C11_AdmissionGate ==
    /\ [](\A r \in ReqIds : requests[r] # NoRequest =>
              /\ requests[r].checks = 1
              /\ requests[r].overloaded =>
                     /\ requests[r].replies = 1
                     /\ requests[r].logs = 1
                     /\ requests[r].executes = 0
              /\ ~requests[r].overloaded =>
                     /\ requests[r].replies = 0
                     /\ requests[r].executes = 1)
    /\ [][requests' # requests => UNCHANGED serverState]_vars

C11_Witness ==
    \E r \in ReqIds : requests[r].overloaded /\ requests[r].replies = 1 /\ started

\* C12: a request whose dispatch began while the server was STOPPED is not
\* forwarded to the pipeline (_execute is not invoked for it).
C12_NoAdmissionAfterStop ==
    \A r \in ReqIds : requests[r].stopped => requests[r].executes = 0

\* the slot a constructor argument is meant for: a number or a numeric string
\* (one for which isFinite(+s) holds) is a port, any other string a host, an
\* object (null included) the options
SlotOf(v) ==
    CASE v.t = "number" -> "port"
      [] v.t = "string" -> IF \A j \in 1..Len(v.s) : v.s[j] \in {"0", "8"} THEN "port" ELSE "host"
      [] v.t = "object" -> "options"
      [] v.t \in {"undefined", "pack"} -> "skip"
      [] OTHER -> "bad"

SlotArgs(args, slot) == {j \in 1..Len(args) : SlotOf(args[j]) = slot}
AcceptedTypes(args) == SlotArgs(args, "bad") = {}
NumericValue(v) ==
    IF v.t = "number" THEN v.n
    ELSE IF v.s = <<>> THEN 0
    ELSE IF v.s = <<"0">> THEN 0
    ELSE IF v.s = <<"8", "0">> THEN 80
    ELSE -1

\* C13: a constructor call in which two arguments of accepted types map to the
\* same slot fails with the duplicated-argument error.
C13_DuplicateRejected ==
    (/\ ctor.phase = "done"
     /\ AcceptedTypes(ctor.args)
     /\ \E slot \in {"host", "port", "options"} : Cardinality(SlotArgs(ctor.args, slot)) > 1)
        => (ctor.res.status = "failed" /\ ctor.res.err = "duplicated")

\* C14: with at most one argument per slot, in any order, the classifier returns
\* the string as host, the number (a numeric string by its value) as port and the
\* object as options, a constructed server has an empty host when no string was
\* given; and a call with an argument of another type fails.
C14_Classification ==
    ctor.phase = "done" =>
        /\ (/\ AcceptedTypes(ctor.args)
            /\ \A slot \in {"host", "port", "options"} :
                   Cardinality(SlotArgs(ctor.args, slot)) <= 1)
               => /\ ctor.res.parsed.err = ""
                  /\ \A j \in SlotArgs(ctor.args, "host") : ctor.res.parsed.host = ctor.args[j]
                  /\ SlotArgs(ctor.args, "host") = {} =>
                         /\ ctor.res.parsed.host = Undefined
                         /\ ctor.res.status = "ok" /\ ctor.res.host = <<>>
                  /\ \A j \in SlotArgs(ctor.args, "port") :
                         ctor.res.parsed.port = Num(NumericValue(ctor.args[j]))
                  /\ SlotArgs(ctor.args, "port") = {} => ctor.res.parsed.port = Undefined
                  /\ \A j \in SlotArgs(ctor.args, "options") :
                         ctor.res.parsed.options = ctor.args[j]
                  /\ SlotArgs(ctor.args, "options") = {} => ctor.res.parsed.options = Undefined
        /\ ~AcceptedTypes(ctor.args) => ctor.res.status = "failed"

C14_Witness ==
    /\ ctor.phase = "done"
    /\ ctor.args = <<Obj("plain"), Str(<<"8", "0">>), Str(<<"A", "b">>)>>
    /\ ctor.res.status = "ok"
    /\ ctor.res.parsed.port = Num(80)
    /\ ctor.res.parsed.host = Str(<<"A", "b">>)

\* C15: a call that gives a port together with a host containing '/' or starting
\* with the pipe prefix fails; a constructed server with a host argument has
\* exactly one of: the resolved socket path, the pipe address as given, the
\* lower-cased host name.
C15_SocketHost ==
    ctor.phase = "done" =>
        /\ (/\ SlotArgs(ctor.args, "port") # {}
            /\ \E j \in SlotArgs(ctor.args, "host") :
                   \/ \E x \in 1..Len(ctor.args[j].s) : ctor.args[j].s[x] = "/"
                   \/ ctor.args[j].s[1] = "P")
               => ctor.res.status = "failed"
        /\ ctor.res.status = "ok" =>
               \A j \in SlotArgs(ctor.args, "host") :
                   LET h == ctor.args[j].s
                       slash == \E x \in 1..Len(h) : h[x] = "/"
                       prefix == h[1] = "P"
                   IN  /\ slash =>
                              /\ ctor.res.info.protocol = "unix"
                              /\ ctor.res.host[1] = "/"
                              /\ SubSeq(ctor.res.host, Len(ctor.res.host) - Len(h) + 1,
                                        Len(ctor.res.host)) = h
                       /\ (~slash /\ prefix) =>
                              ctor.res.info.protocol = "windows" /\ ctor.res.host = h
                       /\ (~slash /\ ~prefix) =>
                              /\ ctor.res.info.protocol \in {"http", "https"}
                              /\ Len(ctor.res.host) = Len(h)
                              /\ \A x \in 1..Len(h) :
                                     ctor.res.host[x] = (IF h[x] = "A" THEN "a" ELSE h[x])

C15_Witness ==
    /\ ctor.phase = "done"
    /\ ctor.args = <<Str(<<"a", "/">>), Num(0)>>
    /\ ctor.res.status = "failed"
    /\ ctor.res.err = "portWithSocket"

\* C16: the port of a constructed server is a port given in the arguments (the
\* given port when there is one, 0 included) and otherwise 443 when the options
\* hold TLS settings and 80 when they do not; info.port of a network listener is
\* that port.
C16_ResolvedPort ==
    (ctor.phase = "done" /\ ctor.res.status = "ok") =>
        /\ SlotArgs(ctor.args, "port") # {} =>
               \E j \in SlotArgs(ctor.args, "port") : ctor.res.port = NumericValue(ctor.args[j])
        /\ SlotArgs(ctor.args, "port") = {} =>
               ctor.res.port = (IF \E j \in 1..Len(ctor.args) : ctor.args[j] = Obj("tls")
                                THEN 443 ELSE 80)
        /\ ctor.res.info.protocol \in {"http", "https"} => ctor.res.info.port = ctor.res.port

C16_Witness ==
    /\ ctor.phase = "done"
    /\ ctor.args = <<Num(0), Obj("tls")>>
    /\ ctor.res.status = "ok"
    /\ ctor.res.port = 0

\* the two timeout examples, every other option left out
TimeoutExample1 == [socket |-> Ms(1000), server |-> Ms(2000), client |-> Absent]
TimeoutExample2 == [socket |-> Ms(5000), server |-> Ms(2000), client |-> Absent]

\* C17: constructing with timeout {socket: 1000, server: 2000} fails, and
\* constructing with timeout {socket: 5000, server: 2000}, timeout.client left at
\* its default, is accepted.
C17_TimeoutExamples ==
    realm.phase = "done" =>
        /\ realm.opts.timeout = TimeoutExample1 => realm.res.status = "failed"
        /\ realm.opts.timeout = TimeoutExample2 => realm.res.status = "ok"

\* C17 (amended): {socket: 1000, server: 2000} fails on the server timeout;
\* {socket: 5000, server: 2000} fails on the client timeout when timeout.client
\* is left at its default (10000) and is accepted when timeout.client is false
\* or 4000.
C17_TimeoutExamplesAmended ==
    realm.phase = "done" =>
        /\ realm.opts.timeout = TimeoutExample1 =>
               (realm.res.status = "failed" /\ realm.res.err = "server")
        /\ realm.opts.timeout = TimeoutExample2 =>
               (realm.res.status = "failed" /\ realm.res.err = "client")
        /\ realm.opts.timeout \in {[TimeoutExample2 EXCEPT !.client = False],
                                   [TimeoutExample2 EXCEPT !.client = Ms(4000)]} =>
               realm.res.status = "ok"

C17_Witness ==
    /\ realm.phase = "done"
    /\ realm.opts.timeout = [TimeoutExample2 EXCEPT !.client = Ms(4000)]
    /\ realm.res.status = "ok"
    /\ realm.res.timeout.server = Ms(2000)

\* the settings the options stand for: socket unset counts as 120000, client
\* left out is 10000, server left out is disabled; false and 0 are disabled
EffectiveMs(opt, default) ==
    IF opt.k = "absent" THEN default ELSE IF opt.k = "number" THEN opt.ms ELSE 0

TimeoutsOrdered(socket, server, client) ==
    /\ (server > 0 /\ socket > 0) => server < socket
    /\ (client > 0 /\ socket > 0) => client < socket

\* C18: the settings of every constructed Realm have server < socket and
\* client < socket whenever both sides are enabled, an unset socket timeout
\* counting as 120000; options that violate either ordering fail construction.
C18_TimeoutOrdering ==
    realm.phase = "done" =>
        LET t == realm.opts.timeout
            ordered == TimeoutsOrdered(EffectiveMs(t.socket, 120000),
                                       EffectiveMs(t.server, 0),
                                       EffectiveMs(t.client, 10000))
        IN  /\ realm.res.status = "ok" =>
                   /\ ordered
                   /\ TimeoutsOrdered(
                          IF realm.res.timeout.socket.k = "undefined" THEN 120000
                          ELSE EffectiveMs(realm.res.timeout.socket, 0),
                          EffectiveMs(realm.res.timeout.server, 0),
                          EffectiveMs(realm.res.timeout.client, 0))
            /\ ~ordered => realm.res.status = "failed"

C18_Witness ==
    /\ realm.phase = "done"
    /\ realm.opts.timeout = [socket |-> Absent, server |-> Ms(120000), client |-> Absent]
    /\ realm.res.status = "failed"

\* C19: the origin list ['*'] (also the default list of cors: true) gives
\* any = true with no qualified and no wildcard entry; a list holding '*' and
\* another value fails construction; any other non-empty list that is accepted
\* gives any = false.
C19_OriginMode ==
    realm.phase = "done" =>
        LET list == realm.opts.cors.origin
            holdsStar == \E j \in 1..Len(list) : list[j] = <<"*">>
            holdsOther == \E j \in 1..Len(list) : list[j] # <<"*">>
        IN  /\ (realm.opts.cors.k = "true" /\ realm.res.status = "ok") => realm.res.origin.any
            /\ realm.opts.cors.k = "object" =>
                   /\ list = << <<"*">> >> =>
                          /\ realm.res.status = "ok"
                          /\ realm.res.origin.any
                          /\ realm.res.origin.qualified = <<>>
                          /\ realm.res.origin.wildcards = <<>>
                   /\ (holdsStar /\ holdsOther) => realm.res.status = "failed"
                   /\ (list # <<>> /\ list # << <<"*">> >> /\ realm.res.status = "ok") =>
                          (realm.res.origin.set /\ ~realm.res.origin.any)

C19_Witness ==
    /\ realm.phase = "done"
    /\ realm.opts.cors = CorsObject(<< <<"*">>, <<"a">> >>, TRUE)
    /\ realm.res.status = "failed"
    /\ realm.res.err = "star"

IsWildcardOrigin(origin) == \E j \in 1..Len(origin) : origin[j] \in {"*", "?"}
IsPlainOrigin(origin) == ~IsWildcardOrigin(origin)

\* C20: when the mode is not ANY, the entries holding '*' or '?' give one
\* anchored pattern each in wildcards and are not in qualified, the entries
\* holding neither are qualified in input order, and qualifiedString is
\* qualified joined by single spaces.
C20_OriginPartition ==
    (/\ realm.phase = "done"
     /\ realm.res.status = "ok"
     /\ realm.opts.cors.k = "object"
     /\ realm.res.origin.set
     /\ ~realm.res.origin.any) =>
        LET list == realm.opts.cors.origin
            o == realm.res.origin
        IN  /\ o.qualified = SelectSeq(list, IsPlainOrigin)
            /\ Len(o.wildcards) = Len(SelectSeq(list, IsWildcardOrigin))
            /\ \A j \in 1..Len(o.wildcards) :
                   /\ Head(o.wildcards[j]) = "^"
                   /\ o.wildcards[j][Len(o.wildcards[j])] = "$"
            /\ o.qualifiedString = JoinSpace(o.qualified)

\* C21: with matchOrigin false and an origin list that is not the ANY list,
\* construction fails when the list holds an entry with '*' or '?' and
\* succeeds when it holds none.
C21_MatchOriginDisabled ==
    (/\ realm.phase = "done"
     /\ realm.opts.cors.k = "object"
     /\ ~realm.opts.cors.matchOrigin
     /\ ~IndexOfStar(realm.opts.cors.origin)) =>
        LET list == realm.opts.cors.origin
            wild == \E j \in 1..Len(list) : IsWildcardOrigin(list[j])
        IN  /\ wild => realm.res.status = "failed"
            /\ ~wild => realm.res.status = "ok"

\* C22: security.hsts false gives no header; true gives 'max-age=15768000'; a
\* number n gives 'max-age=' followed by n; an object gives 'max-age=' followed
\* by its maxAge (15768000 when it has none), with '; includeSubdomains'
\* appended exactly when includeSubdomains is set.
C22_HstsHeader ==
    (/\ realm.phase = "done"
     /\ realm.res.status = "ok"
     /\ realm.opts.security.k = "object") =>
        LET hsts == realm.opts.security.hsts
        IN  /\ hsts.k = "false" => realm.res.hsts = NoHeader
            /\ hsts.k = "true" =>
                   realm.res.hsts = Header(MaxAgePrefix \o <<"1", "5", "7", "6", "8", "0", "0", "0">>)
            /\ hsts.k = "number" => realm.res.hsts = Header(MaxAgePrefix \o ToDecimal(hsts.n))
            /\ hsts.k = "object" =>
                   realm.res.hsts =
                       Header(MaxAgePrefix
                              \o ToDecimal(IF hsts.hasMaxAge THEN hsts.maxAge ELSE 15768000)
                              \o (IF hsts.includeSubdomains THEN IncludeSubdomainsSuffix
                                  ELSE <<>>))

\* u is str with every lower-case letter replaced by its upper-case letter
IsUpperCaseOf(u, str) ==
    /\ Len(u) = Len(str)
    /\ \A j \in 1..Len(str) :
           \/ \E i \in 1..Len(LowerLetters) : LowerLetters[i] = str[j] /\ u[j] = UpperLetters[i]
           \/ /\ \A i \in 1..Len(LowerLetters) : LowerLetters[i] # str[j]
              /\ u[j] = str[j]

C24_RegistryEntriesLive ==
    \A k \in Keys : connections[k] # 0 => cstate[connections[k]] # "closed"

C24_Witness ==
    /\ \E c \in ConnIds : cstate[c] = "closed" /\ recorded[c] > 0
    /\ \E k \in Keys : connections[k] # 0
    /\ \E s \in StopIds : timer[s] = "fired"

\* C25: while the listener is listening or still closing, every open
\* connection it accepted has an entry in the registry, also when open
\* connections share a key.
C25_RegistryComplete ==
    (lst = "listening" \/ closeCbs # {}) =>
        \A c \in ConnIds : cstate[c] = "open" => \E k \in Keys : connections[k] = c

\* C27: the callback of a _stop issued on a server that has been started and
\* stopped (this _stop or an earlier one closed the listener) is invoked only
\* when the listener has finished closing, also for a _stop issued while an
\* earlier _stop is waiting for the listener's close (every close() call having
\* been accepted by the listener).
C27_StopCallbackAfterClose ==
    [][\A s \in StopIds :
           (/\ stopCb'[s] > stopCb[s]
            /\ \E t \in StopIds : t <= s /\ stopMode[t] = "close"
            /\ ~started'
            /\ \A t \in StopIds : stopMode[t] # "threw") =>
               (lst' \notin {"listening", "binding"} /\ closeCbs' = {})]_vars

\* request r was admitted before _stop flipped the state and is being processed
\* on an open connection
InProgress(r) ==
    /\ requests[r].state = "executing"
    /\ ~requests[r].stopped
    /\ cstate[requests[r].conn] = "open"

\* C26: no step of the stop sequence (flip of the state, listener close, drain
\* timer) destroys the connection of a request that was admitted before the
\* flip and is still being processed.
C26_AdmittedRequestContinues ==
    [][\A r \in ReqIds :
           InProgress(r) => cstate'[requests[r].conn] # "destroyed"]_vars

\* C26 (amended): the flip of the state and the listener's close leave the
\* connection of such a request open; only the firing of a drain timer destroys
\* it, and then the request has not completed.
C26_OnlyDrainTimerTerminates ==
    [][\A r \in ReqIds :
           (InProgress(r) /\ cstate'[requests[r].conn] = "destroyed") =>
               /\ \E s \in StopIds : timer[s] = "armed" /\ timer'[s] = "fired"
               /\ requests'[r].state = "executing"]_vars

C26_Witness ==
    \E r \in ReqIds, s \in StopIds :
        /\ requests[r].state = "executing"
        /\ ~requests[r].stopped
        /\ ~started
        /\ stopMode[s] = "close"
        /\ timer[s] = "fired"
        /\ cstate[requests[r].conn] = "destroyed"

\* C28: the delay of the drain timer armed by a _stop call is options.timeout
\* whenever the caller supplied it (0 included) and 5000 when it did not.
C28_DrainTimeout ==
    \A s \in StopIds :
        timer[s] # "none" =>
            drain[s].delay = (IF drain[s].supplied THEN drain[s].timeout ELSE 5000)

\* a constructed server that listens on a network port picked by the system
EphemeralNetwork == ctor.res.status = "ok" /\ ~ctor.res.unix /\ ~ctor.res.pipe /\ ctor.res.port = 0

\* C29: a network server constructed with port 0 has no info.uri until
\* 'listening'; when the start callback runs, info.port is the bound port,
\* info.host is the configured host or else the bound address, and info.uri is
\* protocol + '://' + that host + ':' + the bound port.
C29_NetworkInfo ==
    /\ (ctor.phase = "done" /\ EphemeralNetwork) => ctor.res.info.uri = NoUri
    /\ (ctor.phase = "listening" /\ EphemeralNetwork) =>
           LET info == ctor.res.info
           IN  /\ info.port = ctor.address.port
               /\ info.host = (IF ctor.res.host # <<>> THEN ctor.res.host
                               ELSE ctor.address.address)
               /\ info.uri = Uri(info.protocol, "://", info.host, ctor.address.port)

\* C29 (amended): as C29, but the host of info.uri is the configured host or
\* else the name of the machine (Os.hostname(), or 'localhost'), never the
\* bound address.
C29_NetworkInfoHostname ==
    /\ (ctor.phase = "done" /\ EphemeralNetwork) => ctor.res.info.uri = NoUri
    /\ (ctor.phase = "listening" /\ EphemeralNetwork) =>
           LET info == ctor.res.info
           IN  /\ info.port = ctor.address.port
               /\ info.port \in EphemeralPorts
               /\ info.host = (IF ctor.res.host # <<>> THEN ctor.res.host
                               ELSE ctor.address.address)
               /\ info.uri = Uri(info.protocol, "://",
                                 IF ctor.res.host # <<>> THEN ctor.res.host ELSE <<"h">>,
                                 ctor.address.port)

C29_Witness ==
    /\ ctor.phase = "listening"
    /\ ctor.args = <<Num(0)>>
    /\ ctor.address.port = 49153
    /\ ctor.res.info.host = <<"0", ".", "0", ".", "0", ".", "0">>
    /\ ctor.res.info.uri = Uri("http", "://", <<"h">>, 49153)

\* C30: for a server on a UNIX domain socket or a Windows named pipe, info after
\* the 'listening' step is info as the constructor set it: port 0, protocol
\* 'unix' or 'windows', uri = protocol + ':' + host.
C30_SocketInfoKept ==
    (ctor.phase = "listening" /\ (ctor.res.unix \/ ctor.res.pipe)) =>
        /\ ctor.res.info = Constructor(ctor.args).info
        /\ ctor.res.info.port = 0
        /\ ctor.res.info.protocol = (IF ctor.res.unix THEN "unix" ELSE "windows")
        /\ ctor.res.info.uri = Uri(ctor.res.info.protocol, ":", ctor.res.host, 0)

\* what the claims about inject share: the request went through the gate of
\* _dispatch once, with the caller's credentials as the per-dispatch options; the
\* caller's options object is as it was; the callback ran once when the response
\* had ended, and not before
InjectGate ==
    inject.phase # "none" =>
        /\ inject.request.checks = 1
        /\ inject.request.replies = (IF inject.request.overloaded THEN 1 ELSE 0)
        /\ inject.request.executes = (IF inject.request.overloaded THEN 0 ELSE 1)
        /\ inject.dispatchCredentials = inject.options.credentials
        /\ inject.optionsAfter = inject.options
        /\ inject.callbacks = (IF inject.phase = "done" THEN 1 ELSE 0)
        /\ inject.phase = "done" => inject.result \in {"_hapi.result", "payload"}

\* C31: inject runs the gate of _dispatch with the credentials as per-dispatch
\* options, forwards a request description without a credentials field, leaves
\* the caller's options object as it was, changes no lifecycle state and calls
\* the callback exactly once with the result.
C31_Inject ==
    /\ [](InjectGate /\ (inject.phase # "none" => ~inject.settings.hasCredentials))
    /\ [][inject' # inject => UNCHANGED serverState]_vars

\* C31 (amended): as C31, but the forwarded description has no credentials field
\* only when the caller's credentials are truthy; a credentials field holding a
\* falsy value is forwarded as it is, in the caller's own object.
C31_InjectTruthyCredentials ==
    /\ [](/\ InjectGate
          /\ inject.phase # "none" =>
                 /\ inject.options.credentials = "object" =>
                        /\ ~inject.settings.hasCredentials
                        /\ inject.settings.url = inject.options.url
                 /\ inject.options.credentials # "object" => inject.settings = inject.options)
    /\ [][inject' # inject => UNCHANGED serverState]_vars

C31_Witness ==
    /\ inject.phase = "done"
    /\ inject.options.credentials = "object"
    /\ inject.optionsAfter.hasCredentials
    /\ ~inject.settings.hasCredentials
    /\ inject.dispatchCredentials = "object"
    /\ inject.callbacks = 1
    /\ lst = "idle"
    /\ ~started

====
